---- MODULE Spec2Model ----
(***************************************************************************)
(* Model of the MCP gateway core (src/mcp-gateway/gateway_server.py) and   *)
(* of the dashboard that drives its health prober (src/mcp-gateway/ui.py). *)
(*                                                                         *)
(* Two threads touch GatewayState: "srv", the thread that runs the asyncio *)
(* event loop of the HTTP server (ui.py run_in_thread), and "prb", a       *)
(* thread started by the dashboard with check_server_connections as its    *)
(* target (ui.py update_display).  Coroutines of one event loop interleave *)
(* only at their awaits; the two threads interleave between Python         *)
(* statements, so every statement that reads or writes GatewayState is one *)
(* step of the thread that runs it.                                        *)
(***************************************************************************)
EXTENDS Integers, Sequences, FiniteSets, TLC

VARIABLES
    child_servers,   \* GatewayState.child_servers: name -> descriptor
    order,           \* insertion order of child_servers (dict order)
    metrics,         \* GatewayState.metrics: name -> dict (a function on its keys)
    request_count,   \* GatewayState.request_count
    error_count,     \* GatewayState.error_count
    th,              \* per thread: the code fragment it is executing
    awaiting,        \* per thread: proxies whose check_proxy awaits client.get
    callState,       \* per thread: state of its check_server_connections call
    waiting,         \* per child: server_health_check coroutines awaiting client.get
    resp,            \* the response (or exception) leaving the running handler
    calls,           \* history: update_metrics calls per child
    started,         \* number of /health/{name} requests received
    config,          \* load_child_servers: the child_servers list of the file
    li,              \* load_child_servers: index of the entry being processed
    lpc,             \* load_child_servers: position
    mounted,         \* children attached with gateway.mount, in order
    file,            \* load_child_servers: what is found at config_path
    deployment,      \* the main that runs: "gateway_server" or "ui"
    active_connections,  \* GatewayState.active_connections: address -> dict
    conn_order,      \* insertion order of active_connections (dict order)
    now,             \* the clock utc_now reads, in seconds
    dash,            \* the dashboard thread inside update_display
    pending,         \* LoggingMiddleware: clients whose wrapped app is running
    exchange,        \* how the last exchange through the middleware went
    received,        \* number of requests the middleware has received
    environ,         \* os.environ when load_child_servers runs
    issued,          \* history: per thread and child, the client.get calls of its batch
    before,          \* history: metrics and counters when update_metrics was called
    tracking,        \* the entry the middleware has built and not yet stored
    health_urls,     \* the health URL each of the two probing functions computed
    launcher         \* launcher.py: the ServerLauncher process and its children

vars == <<child_servers, order, metrics, request_count, error_count, th,
          awaiting, callState, waiting, resp, calls, started,
          config, li, lpc, mounted, file,
          deployment, active_connections, conn_order, now, dash, pending,
          exchange, received, environ, issued, before, tracking,
          health_urls, launcher>>

serveVars == <<metrics, request_count, error_count, th, awaiting, callState,
               waiting, resp, calls, started, issued, before>>

loadVars == <<config, li, lpc, mounted, file, environ, health_urls, launcher>>

connVars == <<deployment, active_connections, conn_order, now, dash, pending,
              exchange, received, tracking>>

-----------------------------------------------------------------------------
(* Bounds *)

MaxRequests == 2     \* /health/{name} requests received in one run
MaxEntries == 2      \* entries of a configuration file
MaxProxies == 5      \* proxy children probed by one batch
MaxCalls == 2        \* requests received by the middleware in one run
MaxTime == 41        \* seconds the clock runs

Threads == {"srv", "prb"}

Outcomes == {"200", "non200", "exc"}

\* The latencies a handler can measure, in milliseconds.
Latencies == {1, 2}

\* The module branch measures the time from line 180 to line 218, with no
\* await in between.
ModuleLatencies == {1}

-----------------------------------------------------------------------------
(* Dictionaries: a Python dict is the function on its keys. *)

EmptyDict == [k \in {} |-> 0]

HasKey(d, k) == k \in DOMAIN d

SetKey(d, k, v) == [x \in (DOMAIN d) \cup {k} |-> IF x = k THEN v ELSE d[x]]

Get(d, k, default) == IF k \in DOMAIN d THEN d[k] ELSE default

-----------------------------------------------------------------------------
(* Configuration entries.  An entry is the dict of the JSON file (the      *)
(* function on its keys), plus one key, "env", that says how mounting the  *)
(* entry goes in the environment the gateway starts in:                    *)
(*   proxy:  "ok" | "raises" (ProxyClient, as_proxy or mount raises)       *)
(*   module: "ok" | "nopath" (module path does not exist)                  *)
(*           | "noimport" (no module could be imported, or ImportError)    *)
(*           | "raises" (exec_module, the initializer or mount raises)     *)
(*           | "noattr" (no initializer, no mcp, no server attribute)      *)

ProxyCfg(name, prefix, env) ==
    [name |-> name, type |-> "proxy", prefix |-> prefix, url |-> "u", env |-> env]

ModuleCfg(name, prefix, env) ==
    [name |-> name, type |-> "module", prefix |-> prefix, env |-> env]

\* d without key k.
DelKey(d, k) == [x \in (DOMAIN d) \ {k} |-> d[x]]

CfgNames == {"a", "b"}

CfgPrefixes == {"x", "y"}

\* Entries that load without any failure.
GoodEntries ==
    {ProxyCfg(n, p, "ok") : n \in CfgNames, p \in CfgPrefixes}
    \cup {ModuleCfg(n, p, "ok") : n \in CfgNames, p \in CfgPrefixes}
    \cup {SetKey(ProxyCfg(n, "x", "ok"), "auth", [type |-> "bearer", token |-> "T"])
            : n \in CfgNames}

\* Entries with a missing or malformed field, or whose mount fails.
BadEntries ==
    {DelKey(ProxyCfg("a", "x", "ok"), "name")}
    \cup {DelKey(ProxyCfg(n, "x", "ok"), "type") : n \in CfgNames}
    \cup {DelKey(ProxyCfg(n, "x", "ok"), "url") : n \in CfgNames}
    \cup {SetKey(ProxyCfg(n, "x", "ok"), "auth", [token |-> "T"]) : n \in CfgNames}
    \cup {SetKey(ProxyCfg(n, "x", "ok"), "auth", [type |-> "bearer"]) : n \in CfgNames}
    \cup {ProxyCfg(n, "x", "raises") : n \in CfgNames}
    \cup {ModuleCfg(n, "x", e) : n \in CfgNames,
                                 e \in {"nopath", "noimport", "raises", "noattr"}}
    \cup {SetKey(ModuleCfg(n, "x", "ok"), "type", "other") : n \in CfgNames}

\* Module entries that import fine, told apart by the attributes the
\* imported module has (key "attrs", like "env" a fact of the environment)
\* and by the init_function the entry configures.
HandleEntries ==
    {SetKey(ModuleCfg("a", "x", "ok"), "attrs", A)
        : A \in SUBSET {"initialize", "mcp", "server"}}
    \cup {SetKey(SetKey(ModuleCfg("b", "y", "ok"), "init_function", "setup"), "attrs", A)
            : A \in {{"setup", "mcp"}, {"initialize", "mcp", "server"},
                     {"initialize", "server"}}}

Entries == GoodEntries \cup BadEntries \cup HandleEntries

RECURSIVE SeqsUpTo(_, _)
SeqsUpTo(S, n) ==
    IF n = 0 THEN {<<>>}
    ELSE LET T == SeqsUpTo(S, n - 1) IN
         T \cup {Append(q, e) : q \in {x \in T : Len(x) = n - 1}, e \in S}

Configs == SeqsUpTo(Entries, MaxEntries)

-----------------------------------------------------------------------------
(* The registry the serving model starts from: the result of loading a     *)
(* configuration with one proxy entry and one module entry.                *)

Registry == [p1 |-> ProxyCfg("p1", "x", "ok"), m1 |-> ModuleCfg("m1", "y", "ok")]

RegistryOrder == <<"p1", "m1">>

Names == DOMAIN child_servers

ProxyNames == {n \in Names : child_servers[n]["type"] = "proxy"}

UnknownName == "nosuch"

-----------------------------------------------------------------------------
(* Thread fragments.  A step that touches only what its own thread can see *)
(* (locals, the loop's task list, the immutable registry) is taken         *)
(* together with the statement before it.                                  *)

Idle ==
    [pc |-> "idle", name |-> "-", outcome |-> "-", latency |-> 0,
     status |-> "-", phase |-> "-", i |-> 0]

\* Where a thread's event loop is when no coroutine of it is running: the
\* server thread is idle in uvicorn's loop; the prober thread is inside
\* asyncio.run(run_checks()).
Home(t) == IF t = "srv" THEN "idle" ELSE "cs145"

PutMetrics(n, rec) ==
    metrics' = [x \in (DOMAIN metrics) \cup {n} |-> IF x = n THEN rec ELSE metrics[x]]

Goto(t, pc) == th' = [th EXCEPT ![t].pc = pc]

NoCall == [invoked |-> 0, completed |-> 0, errors |-> 0]

NoResp == [route |-> "-", name |-> "-", probe |-> "-", code |-> "-", status |-> "-"]

-----------------------------------------------------------------------------
(* GatewayState.update_metrics, one step per statement.  It runs only on   *)
(* the server thread, called by server_health_check.                       *)

ZeroRecord ==
    [request_count |-> 0, error_count |-> 0, total_latency |-> 0,
     last_check |-> "None", status |-> "unknown",
     connection_status |-> "disconnected"]

\* Line 68 left out: the per-child request counter is never incremented.
IncRequestCountDropped(rec) == rec

IncRequestCount(rec) == SetKey(rec, "request_count", rec["request_count"] + 1)

AddLatency(rec, latency) == SetKey(rec, "total_latency", rec["total_latency"] + latency)

IncErrorCount(rec) == SetKey(rec, "error_count", rec["error_count"] + 1)

ConnectionStatusOf(status) ==
    IF status = "healthy" THEN "connected"
    ELSE IF status = "error" THEN "failed"
    ELSE "unhealthy"

\* The call update_metrics(n, latency, status) made in `phase` of the
\* handler, up to the test of line 58.
CallUpdateMetrics(n, outcome, latency, status, phase) ==
    /\ th' = [th EXCEPT !["srv"] =
                [pc |-> IF n \in DOMAIN metrics THEN "um68" ELSE "um59",
                 name |-> n, outcome |-> outcome, latency |-> latency,
                 status |-> status, phase |-> phase, i |-> 0]]
    /\ calls' = [calls EXCEPT ![n].invoked = @ + 1]

\* A KeyError leaves update_metrics.  Raised in the try block of the proxy
\* branch it is caught at line 204, whose handler calls update_metrics again
\* with "error"; raised in that handler, or in the module branch, it leaves
\* server_health_check.
RaiseKeyError ==
    LET f == th["srv"] IN
    IF f.phase = "try"
    THEN /\ \E l \in {x \in Latencies : x >= f.latency} :
                CallUpdateMetrics(f.name, f.outcome, l, "error", "except")
         /\ UNCHANGED <<metrics, request_count, error_count, resp>>
    ELSE /\ th' = [th EXCEPT !["srv"].pc = "ret"]
         /\ resp' = [NoResp EXCEPT !.route = "health_name", !.name = f.name,
                                   !.probe = f.outcome, !.code = "raised"]
         /\ UNCHANGED <<metrics, request_count, error_count, calls>>

\* What no statement of update_metrics touches.
UmFrame ==
    UNCHANGED <<awaiting, callState, waiting, started, child_servers, order,
                issued, before, loadVars, connVars>>

\* Lines 59-66.
Um59 ==
    /\ UmFrame
    /\ th["srv"].pc = "um59"
    /\ PutMetrics(th["srv"].name, ZeroRecord)
    /\ Goto("srv", "um68")
    /\ UNCHANGED <<request_count, error_count, resp, calls>>

\* Line 68.
Um68 ==
    /\ UmFrame
    /\ th["srv"].pc = "um68"
    /\ LET n == th["srv"].name IN
       IF HasKey(metrics[n], "request_count")
       THEN /\ PutMetrics(n, IncRequestCount(metrics[n]))
            /\ Goto("srv", "um69")
            /\ UNCHANGED <<request_count, error_count, resp, calls>>
       ELSE RaiseKeyError

\* Line 69, the last use of the latency argument.
Um69 ==
    /\ UmFrame
    /\ th["srv"].pc = "um69"
    /\ LET n == th["srv"].name IN
       IF HasKey(metrics[n], "total_latency")
       THEN /\ PutMetrics(n, AddLatency(metrics[n], th["srv"].latency))
            /\ th' = [th EXCEPT !["srv"].pc = "um70", !["srv"].latency = 0]
            /\ UNCHANGED <<request_count, error_count, resp, calls>>
       ELSE RaiseKeyError

\* Line 70.
Um70 ==
    /\ UmFrame
    /\ th["srv"].pc = "um70"
    /\ PutMetrics(th["srv"].name, SetKey(metrics[th["srv"].name], "last_check", "ts"))
    /\ Goto("srv", "um71")
    /\ UNCHANGED <<request_count, error_count, resp, calls>>

\* Line 71.
Um71 ==
    /\ UmFrame
    /\ th["srv"].pc = "um71"
    /\ PutMetrics(th["srv"].name,
                  SetKey(metrics[th["srv"].name], "status", th["srv"].status))
    /\ Goto("srv", "um74")
    /\ UNCHANGED <<request_count, error_count, resp, calls>>

\* Lines 74-77 and 80-81.
Um74 ==
    /\ UmFrame
    /\ th["srv"].pc = "um74"
    /\ PutMetrics(th["srv"].name,
                  SetKey(metrics[th["srv"].name], "connection_status",
                         ConnectionStatusOf(th["srv"].status)))
    /\ Goto("srv", IF th["srv"].status = "error" THEN "um78" ELSE "um83")
    /\ UNCHANGED <<request_count, error_count, resp, calls>>

\* Lines 78-79.  The global counters are written by the server thread only.
Um78 ==
    /\ UmFrame
    /\ th["srv"].pc = "um78"
    /\ LET n == th["srv"].name IN
       IF HasKey(metrics[n], "error_count")
       THEN /\ PutMetrics(n, IncErrorCount(metrics[n]))
            /\ error_count' = error_count + 1
            /\ Goto("srv", "um83")
            /\ UNCHANGED <<request_count, resp, calls>>
       ELSE RaiseKeyError

\* The JSONResponse the handler builds from its locals once update_metrics
\* has returned (lines 196-203, 208-215, 221-227).
ResponseCode(phase) == IF phase = "except" THEN "503" ELSE "200"

\* Line 83 and the return to server_health_check.
Um83 ==
    /\ UmFrame
    /\ th["srv"].pc = "um83"
    /\ request_count' = request_count + 1
    /\ LET f == th["srv"] IN
       /\ calls' = [calls EXCEPT ![f.name].completed = @ + 1,
                                 ![f.name].errors =
                                     IF f.status = "error" THEN @ + 1 ELSE @]
       /\ resp' = [route |-> "health_name", name |-> f.name, probe |-> f.outcome,
                   code |-> ResponseCode(f.phase), status |-> f.status]
    /\ Goto("srv", "ret")
    /\ UNCHANGED <<metrics, error_count>>

-----------------------------------------------------------------------------
(* GatewayState.check_server_connections, one step per statement.  Thread  *)
(* "srv" calls it once from run_server (ui.py:371) inside the running      *)
(* event loop; thread "prb" is a thread the dashboard starts with it as    *)
(* target (ui.py:300), where no loop is running.                           *)

ModuleRecord ==
    [request_count |-> 0, error_count |-> 0, total_latency |-> 0,
     last_check |-> "ts", status |-> "healthy"]

\* Index of the first module descriptor at or after position i of the
\* registry, 0 when there is none (the for loop of lines 120-121).
NextModule(i) ==
    LET S == {j \in i..Len(order) : child_servers[order[j]]["type"] = "module"}
    IN  IF S = {} THEN 0 ELSE CHOOSE j \in S : \A k \in S : j <= k

\* The except branch records "failed", as update_metrics does for an error.
ProbeConnectionStatusFailed(outcome) ==
    IF outcome = "200" THEN "connected"
    ELSE IF outcome = "non200" THEN "unhealthy"
    ELSE "failed"

\* Any answer counts as reachable, whatever its status code.
ProbeConnectionStatusAnyAnswer(outcome) ==
    IF outcome = "200" THEN "connected"
    ELSE IF outcome = "non200" THEN "connected"
    ELSE "disconnected"

ProbeConnectionStatus(outcome) ==
    IF outcome = "200" THEN "connected"
    ELSE IF outcome = "non200" THEN "unhealthy"
    ELSE "disconnected"

\* Lines 138-145.  With a running loop (the server thread) run_checks is
\* only scheduled with create_task and the call returns; with none (the
\* prober thread) asyncio.run starts a loop and blocks in it.  Either way
\* each check_proxy coroutine runs up to its await of client.get.
RunChecks(t) ==
    /\ awaiting' = [awaiting EXCEPT ![t] = @ \cup ProxyNames]
    /\ issued' = [issued EXCEPT ![t] = [n \in ProxyNames |-> 1]]
    /\ IF t = "srv"
       THEN /\ th' = [th EXCEPT ![t] = Idle]
            /\ callState' = [callState EXCEPT ![t] = "returned"]
       ELSE /\ th' = [th EXCEPT ![t] = [Idle EXCEPT !.pc = "cs145"]]
            /\ callState' = [callState EXCEPT ![t] = "running"]

\* Lines 120-121 from position i of the registry: on to the next module
\* descriptor, or out of the loop and into lines 133-145.
LoopFrom(t, i) ==
    LET j == NextModule(i) IN
    IF j = 0 THEN RunChecks(t)
    ELSE /\ th' = [th EXCEPT ![t] = [Idle EXCEPT !.pc = "cs122", !.i = j,
                                                !.name = order[j]]]
         /\ callState' = [callState EXCEPT ![t] = "running"]
         /\ UNCHANGED <<awaiting, issued>>

CsFrame ==
    UNCHANGED <<request_count, error_count, waiting, resp, calls, started,
                child_servers, order, before, loadVars, connVars>>

\* run_server reaches line 371 and calls check_server_connections.
BootCall ==
    /\ th["srv"].pc = "boot"
    /\ LoopFrom("srv", 1)
    /\ UNCHANGED metrics
    /\ CsFrame

\* update_display starts a thread running check_server_connections.
StartProber ==
    /\ th["prb"].pc = "idle"
    /\ LoopFrom("prb", 1)
    /\ UNCHANGED metrics
    /\ CsFrame

\* Line 122.
Cs122(t) ==
    /\ th[t].pc = "cs122"
    /\ Goto(t, IF th[t].name \in DOMAIN metrics THEN "cs130" ELSE "cs123")
    /\ UNCHANGED <<metrics, awaiting, callState, issued>>
    /\ CsFrame

\* Lines 123-129.
Cs123(t) ==
    /\ th[t].pc = "cs123"
    /\ PutMetrics(th[t].name, ModuleRecord)
    /\ Goto(t, "cs130")
    /\ UNCHANGED <<awaiting, callState, issued>>
    /\ CsFrame

\* Line 130 left out: the loop goes on without marking the module.
Cs130Skipping(t) ==
    /\ th[t].pc = "cs130"
    /\ UNCHANGED metrics
    /\ LoopFrom(t, th[t].i + 1)
    /\ CsFrame

\* Line 130, then the loop.
Cs130(t) ==
    /\ th[t].pc = "cs130"
    /\ PutMetrics(th[t].name, SetKey(metrics[th[t].name], "connection_status", "connected"))
    /\ LoopFrom(t, th[t].i + 1)
    /\ CsFrame

\* Line 145: asyncio.run returns once gather has collected every task.
Cs145 ==
    /\ th["prb"].pc = "cs145"
    /\ awaiting["prb"] = {}
    /\ th' = [th EXCEPT !["prb"] = Idle]
    /\ callState' = [callState EXCEPT !["prb"] = "returned"]
    /\ UNCHANGED <<metrics, awaiting, issued>>
    /\ CsFrame

\* Without the except clause of line 114: the exception leaves check_proxy,
\* gather hands it to run_checks, and the rest of the batch is abandoned.
ProbeResolveUncaught(t, n, outcome) ==
    /\ th[t].pc = Home(t)
    /\ n \in awaiting[t]
    /\ IF outcome = "exc"
       THEN /\ awaiting' = [awaiting EXCEPT ![t] = {}]
            /\ callState' = [callState EXCEPT ![t] = "raised"]
            /\ th' = [th EXCEPT ![t] = [Idle EXCEPT !.pc = Home(t)]]
       ELSE /\ awaiting' = [awaiting EXCEPT ![t] = @ \ {n}]
            /\ th' = [th EXCEPT ![t] =
                        [Idle EXCEPT !.pc = IF n \in DOMAIN metrics THEN "cp108" ELSE "cp107",
                                     !.name = n, !.outcome = outcome]]
            /\ UNCHANGED callState
    /\ UNCHANGED <<metrics, issued>>
    /\ CsFrame

\* With a retry: a probe that timed out is issued a second time before its
\* result is taken.
ProbeResolveRetrying(t, n, outcome) ==
    /\ th[t].pc = Home(t)
    /\ n \in awaiting[t]
    /\ IF outcome = "exc" /\ issued[t][n] < 2
       THEN /\ issued' = [issued EXCEPT ![t][n] = @ + 1]
            /\ UNCHANGED <<awaiting, th>>
       ELSE /\ awaiting' = [awaiting EXCEPT ![t] = @ \ {n}]
            /\ th' = [th EXCEPT ![t] =
                        [Idle EXCEPT !.pc = IF n \in DOMAIN metrics THEN "cp108" ELSE "cp107",
                                     !.name = n, !.outcome = outcome]]
            /\ UNCHANGED issued
    /\ UNCHANGED <<metrics, callState>>
    /\ CsFrame

\* Lines 104-106, 111, 115: client.get of check_proxy(n) ends with a
\* response or raises (timeout after 2 s, transport failure); the coroutine
\* resumes when the loop of its thread is free and tests
\* `name not in self.metrics`.
ProbeResolve(t, n, outcome) ==
    /\ th[t].pc = Home(t)
    /\ n \in awaiting[t]
    /\ awaiting' = [awaiting EXCEPT ![t] = @ \ {n}]
    /\ th' = [th EXCEPT ![t] =
                [Idle EXCEPT !.pc = IF n \in DOMAIN metrics THEN "cp108" ELSE "cp107",
                             !.name = n, !.outcome = outcome]]
    /\ UNCHANGED <<metrics, callState, issued>>
    /\ CsFrame

\* Lines 107, 112, 116: self.metrics[name] = {}.
Cp107(t) ==
    /\ th[t].pc = "cp107"
    /\ PutMetrics(th[t].name, EmptyDict)
    /\ Goto(t, "cp108")
    /\ UNCHANGED <<awaiting, callState, issued>>
    /\ CsFrame

\* Lines 108, 113, 117: the connection_status of the probe's outcome.
Cp108(t) ==
    /\ th[t].pc = "cp108"
    /\ PutMetrics(th[t].name,
                  SetKey(metrics[th[t].name], "connection_status",
                         ProbeConnectionStatus(th[t].outcome)))
    /\ th' = [th EXCEPT ![t] =
                IF th[t].outcome = "200" THEN [@ EXCEPT !.pc = "cp109"]
                ELSE [Idle EXCEPT !.pc = Home(t)]]
    /\ UNCHANGED <<awaiting, callState, issued>>
    /\ CsFrame

\* Line 109.
Cp109(t) ==
    /\ th[t].pc = "cp109"
    /\ PutMetrics(th[t].name, SetKey(metrics[th[t].name], "last_check", "ts"))
    /\ th' = [th EXCEPT ![t] = [Idle EXCEPT !.pc = Home(t)]]
    /\ UNCHANGED <<awaiting, callState, issued>>
    /\ CsFrame

-----------------------------------------------------------------------------
(* The HTTP routes.  Handlers are coroutines of the server thread's loop:  *)
(* one runs from an await to the next without another handler in between.  *)
(* uvicorn serves only after check_server_connections has returned to      *)
(* run_server.                                                             *)

Serving == th["srv"].pc = "idle" /\ callState["srv"] = "returned"

RouteFrame ==
    UNCHANGED <<awaiting, callState, child_servers, order, issued, before,
                loadVars, connVars>>

\* server_health_check with lines 176-177 left out: an unknown name gets a
\* fresh metrics record before the 404 is answered.
HealthRequestRecording(n) ==
    /\ Serving
    /\ started < MaxRequests
    /\ started' = started + 1
    /\ IF n \notin Names
       THEN /\ resp' = [NoResp EXCEPT !.route = "health_name", !.name = n, !.code = "404"]
            /\ th' = [th EXCEPT !["srv"].pc = "ret"]
            /\ PutMetrics(n, ZeroRecord)
            /\ UNCHANGED <<waiting, calls>>
       ELSE IF child_servers[n]["type"] = "proxy"
       THEN /\ waiting' = [waiting EXCEPT ![n] = @ + 1]
            /\ UNCHANGED <<th, resp, calls, metrics>>
       ELSE /\ \E l \in ModuleLatencies : CallUpdateMetrics(n, "-", l, "healthy", "else")
            /\ UNCHANGED <<waiting, resp, metrics>>
    /\ UNCHANGED <<request_count, error_count>>
    /\ RouteFrame

\* server_health_check, lines 174-190 and 216-219: an unknown name is
\* answered 404; a proxy's handler awaits client.get; a module's handler
\* records a healthy observation.
HealthRequest(n) ==
    /\ Serving
    /\ started < MaxRequests
    /\ started' = started + 1
    /\ IF n \notin Names
       THEN /\ resp' = [NoResp EXCEPT !.route = "health_name", !.name = n, !.code = "404"]
            /\ th' = [th EXCEPT !["srv"].pc = "ret"]
            /\ UNCHANGED <<waiting, calls>>
       ELSE IF child_servers[n]["type"] = "proxy"
       THEN /\ waiting' = [waiting EXCEPT ![n] = @ + 1]
            /\ UNCHANGED <<th, resp, calls>>
       ELSE /\ \E l \in ModuleLatencies : CallUpdateMetrics(n, "-", l, "healthy", "else")
            /\ UNCHANGED <<waiting, resp>>
    /\ UNCHANGED <<metrics, request_count, error_count>>
    /\ RouteFrame

StatusOfProbe(outcome) ==
    IF outcome = "200" THEN "healthy"
    ELSE IF outcome = "non200" THEN "unhealthy"
    ELSE "error"

\* server_health_check, lines 190-194 and 204-206: client.get returns a
\* response or raises (timeout after 5 s, transport failure).
HealthProbeResolve(n, outcome) ==
    /\ th["srv"].pc = "idle"
    /\ waiting[n] > 0
    /\ waiting' = [waiting EXCEPT ![n] = @ - 1]
    /\ \E l \in Latencies :
          CallUpdateMetrics(n, outcome, l, StatusOfProbe(outcome),
                            IF outcome = "exc" THEN "except" ELSE "try")
    /\ UNCHANGED <<metrics, request_count, error_count, resp, started>>
    /\ RouteFrame

\* The handler's response (or its exception) leaves the handler.
Respond ==
    /\ th["srv"].pc = "ret"
    /\ th' = [th EXCEPT !["srv"] = Idle]
    /\ resp' = NoResp
    /\ UNCHANGED <<metrics, request_count, error_count, waiting, calls, started>>
    /\ RouteFrame

\* round(total_latency / request_count, 2), in hundredths of a millisecond.
AverageLatency(rec) ==
    (200 * rec["total_latency"] + rec["request_count"]) \div (2 * rec["request_count"])

\* server_status is the descriptor itself instead of a new dict: line 240
\* stores the metrics record in the descriptor.
StatusInPlace ==
    /\ Serving
    /\ child_servers' = [n \in DOMAIN child_servers |->
                            SetKey(child_servers[n], "metrics",
                                   Get(metrics, n, EmptyDict))]
    /\ resp' = [NoResp EXCEPT !.route = "status", !.code = "200"]
    /\ th' = [th EXCEPT !["srv"].pc = "ret"]
    /\ UNCHANGED <<metrics, request_count, error_count, waiting, calls, started,
                   awaiting, callState, order, issued, before, loadVars, connVars>>

\* status, lines 234-248: the loop over child_servers.  server_status["metrics"]
\* is the dict held in state.metrics, so line 246 writes into the state.
RECURSIVE StatusWalk(_, _)
StatusWalk(i, m) ==
    IF i > Len(order) THEN [m |-> m, ok |-> TRUE]
    ELSE LET n == order[i] IN
         IF n \notin DOMAIN m THEN StatusWalk(i + 1, m)
         ELSE IF ~HasKey(m[n], "request_count") THEN [m |-> m, ok |-> FALSE]
         ELSE IF m[n]["request_count"] > 0
         THEN StatusWalk(i + 1,
                  [m EXCEPT ![n] = SetKey(@, "average_latency_ms", AverageLatency(@))])
         ELSE StatusWalk(i + 1, m)

Status ==
    /\ Serving
    /\ LET r == StatusWalk(1, metrics) IN
       /\ metrics' = r.m
       /\ resp' = [NoResp EXCEPT !.route = "status",
                                 !.code = IF r.ok THEN "200" ELSE "raised"]
    /\ th' = [th EXCEPT !["srv"].pc = "ret"]
    /\ UNCHANGED <<request_count, error_count, waiting, calls, started>>
    /\ RouteFrame

\* metrics, lines 261-273, and health_check, lines 156-169.
ReadOnly(route) ==
    /\ Serving
    /\ resp' = [NoResp EXCEPT !.route = route, !.code = "200"]
    /\ th' = [th EXCEPT !["srv"].pc = "ret"]
    /\ UNCHANGED <<metrics, request_count, error_count, waiting, calls, started>>
    /\ RouteFrame

Metrics == ReadOnly("metrics")

\* root, lines 151-154.
Root == ReadOnly("root")

HealthCheck == ReadOnly("health")

\* The tools gateway_info, lines 450-459, and list_servers, lines 461-473:
\* both build their answer from reads of state.child_servers.
GatewayTools == ReadOnly("tool")

-----------------------------------------------------------------------------
(* Connection tracking at rest: no client has been seen, the dashboard     *)
(* thread is between two calls of update_display.                          *)

DashIdle ==
    [pc |-> "sleep", keys |-> <<>>, current_time |-> 0, time_diff |-> 0,
     header |-> 0, active |-> 0]

\* No client.get issued yet by either thread's check_server_connections.
NoProbes == [t \in Threads |-> EmptyDict]

\* No update_metrics call entered yet.
NoSnapshot ==
    [metrics |-> EmptyDict, request_count |-> 0, error_count |-> 0,
     name |-> "-", latency |-> 0, status |-> "-"]

\* Neither check_proxy nor server_health_check has computed a health URL.
NoUrls == [check_proxy |-> <<>>, server_health_check |-> <<>>]

\* The servers launcher.py starts, in the order of lines 88 and 91.
Servers == <<"ADO", "Docupedia">>

\* A child process: not created, running or exited; how the last call of
\* terminate() and of kill() for it ended ("sent", or "failed" when it
\* raised; "no" when there was none).
NoChild == [st |-> "none", term |-> "no", kill |-> "no"]

\* The launcher with its main thread at pc: processes is self.processes,
\* idx the server being started, stack the stop_all calls in progress
\* (the innermost last), fin whether the finally block of run was entered,
\* signals the signals delivered, stopped the stop_all calls completed.
LauncherAt(pc) ==
    [pc |-> pc, idx |-> 1, processes |-> <<>>,
     child |-> [c \in {Servers[i] : i \in 1..Len(Servers)} |-> NoChild],
     stack |-> <<>>, fin |-> FALSE, signals |-> 0, stopped |-> 0]

\* launcher.py is not running.
NoLauncher == LauncherAt("off")

\* The middleware holds no entry it has built and not stored.
NoTracking == [client |-> "None", entry |-> EmptyDict]

NoConnections(d) ==
    /\ deployment = d
    /\ active_connections = EmptyDict
    /\ conn_order = <<>>
    /\ now = 0
    /\ dash = DashIdle
    /\ pending = {}
    /\ exchange = "none"
    /\ received = 0
    /\ tracking = NoTracking

-----------------------------------------------------------------------------
(* The gateway serving: GatewayState after load_child_servers has filled   *)
(* the registry, run_server about to call check_server_connections.        *)

Init ==
    /\ child_servers = Registry
    /\ order = RegistryOrder
    /\ metrics = EmptyDict
    /\ request_count = 0
    /\ error_count = 0
    /\ th = [t \in Threads |-> IF t = "srv" THEN [Idle EXCEPT !.pc = "boot"] ELSE Idle]
    /\ awaiting = [t \in Threads |-> {}]
    /\ callState = [t \in Threads |-> "none"]
    /\ waiting = [n \in DOMAIN Registry |-> 0]
    /\ resp = NoResp
    /\ calls = [n \in DOMAIN Registry |-> NoCall]
    /\ started = 0
    /\ config = <<>>
    /\ li = 0
    /\ lpc = "returned"
    /\ mounted = <<[name |-> "p1", prefix |-> "x", headers |-> EmptyDict,
                    handle |-> [via |-> "as_proxy", name |-> "-"]],
                   [name |-> "m1", prefix |-> "y", headers |-> EmptyDict,
                    handle |-> [via |-> "call", name |-> "initialize"]]>>
    /\ file = "ok"
    /\ environ = EmptyDict
    /\ issued = NoProbes
    /\ before = NoSnapshot
    /\ health_urls = NoUrls
    /\ launcher = NoLauncher
    /\ NoConnections("ui")

Next ==
    \/ BootCall
    \/ StartProber
    \/ \E t \in Threads : Cs122(t)
    \/ \E t \in Threads : Cs123(t)
    \/ \E t \in Threads : Cs130(t)
    \/ Cs145
    \/ \E t \in Threads, n \in Names, o \in Outcomes : ProbeResolve(t, n, o)
    \/ \E t \in Threads : Cp107(t)
    \/ \E t \in Threads : Cp108(t)
    \/ \E t \in Threads : Cp109(t)
    \/ \E n \in Names \cup {UnknownName} : HealthRequest(n)
    \/ \E n \in Names, o \in Outcomes : HealthProbeResolve(n, o)
    \/ Um59 \/ Um68 \/ Um69 \/ Um70 \/ Um71 \/ Um74 \/ Um78 \/ Um83
    \/ Respond
    \/ Status
    \/ Metrics
    \/ HealthCheck
    \/ Root
    \/ GatewayTools

Spec == Init /\ [][Next]_vars

-----------------------------------------------------------------------------
(* One batch of check_server_connections over a registry of proxy          *)
(* children.  What a child's health endpoint does is fixed for the batch   *)
(* and told by its url: "up" answers 200, "failing" answers another code,  *)
(* "silent" does not answer within the timeout.                            *)

ProxyPool == <<"q1", "q2", "q3", "q4", "q5", "q6">>

EndpointUrls == {"up", "failing", "silent"}

\* What client.get(health_url, timeout=2.0) of line 104 ends with.
AnswerOf(url) ==
    IF url = "up" THEN "200"
    ELSE IF url = "failing" THEN "non200"
    ELSE "exc"

BatchRegistries(S) ==
    {[n \in S |-> [ProxyCfg(n, n, "ok") EXCEPT !.url = f[n]]] : f \in [S -> EndpointUrls]}

InitBatch ==
    /\ \E k \in 1..MaxProxies :
          /\ order = SubSeq(ProxyPool, 1, k)
          /\ child_servers \in BatchRegistries({ProxyPool[i] : i \in 1..k})
          /\ mounted = [i \in 1..k |-> [name |-> ProxyPool[i], prefix |-> ProxyPool[i],
                                        headers |-> EmptyDict,
                                        handle |-> [via |-> "as_proxy", name |-> "-"]]]
    /\ metrics = EmptyDict
    /\ request_count = 0
    /\ error_count = 0
    /\ th = [t \in Threads |-> IF t = "srv" THEN [Idle EXCEPT !.pc = "boot"] ELSE Idle]
    /\ awaiting = [t \in Threads |-> {}]
    /\ callState = [t \in Threads |-> "none"]
    /\ waiting = [n \in DOMAIN child_servers |-> 0]
    /\ resp = NoResp
    /\ calls = [n \in DOMAIN child_servers |-> NoCall]
    /\ started = 0
    /\ config = <<>>
    /\ li = 0
    /\ lpc = "returned"
    /\ file = "ok"
    /\ environ = EmptyDict
    /\ issued = NoProbes
    /\ before = NoSnapshot
    /\ health_urls = NoUrls
    /\ launcher = NoLauncher
    /\ NoConnections("ui")

\* The batch is the first call of check_server_connections, made by
\* run_server inside the running loop (ui.py:371) ...
BatchBoot ==
    /\ \A t \in Threads : callState[t] = "none"
    /\ BootCall

\* ... or made by a thread of the dashboard (ui.py:300).
BatchProber ==
    /\ \A t \in Threads : callState[t] = "none"
    /\ StartProber

BatchProbeResolve(t, n) == ProbeResolve(t, n, AnswerOf(child_servers[n]["url"]))

NextBatch ==
    \/ BatchBoot
    \/ BatchProber
    \/ \E t \in Threads, n \in Names : BatchProbeResolve(t, n)
    \/ \E t \in Threads : Cp107(t)
    \/ \E t \in Threads : Cp108(t)
    \/ \E t \in Threads : Cp109(t)
    \/ Cs145

SpecBatch == InitBatch /\ [][NextBatch]_vars

-----------------------------------------------------------------------------
(* Connection tracking.  The ASGI middleware runs on the server thread:    *)
(* LoggingMiddleware when gateway_server.main runs, SilentLoggingMiddleware *)
(* when ui.main runs.  Under ui.main the dashboard thread calls            *)
(* update_display about once a second; it renders the header, then the     *)
(* info panel, whose first part prunes active_connections.                 *)

Addrs == {"c1", "c2"}

\* scope.get("client", ("unknown", 0)): a (host, port) pair, or None when
\* the server could not tell the peer.
Clients == Addrs \cup {"None"}

\* "mcp_post" is POST /mcp; "other" is any other method and path;
\* "non_http" is a scope whose type is not "http".
RequestKinds == {"mcp_post", "other", "non_http"}

\* Seconds the clock can advance in one step.
Ticks == {10, 21}

IdleThreshold == 30

\* utc_now().isoformat(): the text of an instant, with its UTC offset.
Isoformat(t) == [text |-> t, offset |-> "+00:00"]

\* ui.py lines 237-239: the offset is cut off the text, the rest is parsed
\* and read as an instant of current_time's zone, which is UTC.
FromIsoformat(str) == str.text

\* Lines 497-501 of gateway_server.py, 327-331 of ui.py: the entry is a new
\* dict on every tracked request.
TrackedEntry(c) ==
    [connected_at |-> Isoformat(now), last_seen |-> Isoformat(now),
     requests |-> Get(Get(active_connections, c, EmptyDict), "requests", 0) + 1]

\* The right-hand side of the assignment is evaluated first: the dict is
\* built, with the requests read at line 500 (ui.py 330), and is not yet
\* stored.
Track(c) == tracking' = [client |-> c, entry |-> TrackedEntry(c)]

\* The server thread is between two requests' tracking statements.
NotTracking == tracking = NoTracking

\* s without its elements equal to x.
RECURSIVE Without(_, _)
Without(s, x) ==
    IF s = <<>> THEN <<>>
    ELSE IF Head(s) = x THEN Without(Tail(s), x)
    ELSE <<Head(s)>> \o Without(Tail(s), x)

ConnFrame == UNCHANGED <<child_servers, order, serveVars, loadVars, deployment>>

\* The store of the assignment, line 497 (ui.py 327), then the call of the
\* wrapped app (line 515, ui.py 333).
TrackStore ==
    /\ ~NotTracking
    /\ LET c == tracking.client IN
       /\ active_connections' =
             [x \in (DOMAIN active_connections) \cup {c} |->
                 IF x = c THEN tracking.entry ELSE active_connections[x]]
       /\ conn_order' = IF c \in DOMAIN active_connections THEN conn_order
                        ELSE Append(conn_order, c)
       /\ IF deployment = "ui"
          THEN exchange' = "served" /\ UNCHANGED pending
          ELSE pending' = pending \cup {c} /\ UNCHANGED exchange
    /\ tracking' = NoTracking
    /\ UNCHANGED <<now, dash, received>>
    /\ ConnFrame

\* time passes.
Tick(d) ==
    /\ now + d <= MaxTime
    /\ now' = now + d
    /\ UNCHANGED <<active_connections, conn_order, dash, pending, exchange, received,
                   tracking>>
    /\ ConnFrame

\* SilentLoggingMiddleware.__call__, ui.py lines 317-333.  client[0] of line
\* 325 raises TypeError when the client is None; nothing catches it.
SilentCall(kind, c) ==
    /\ deployment = "ui"
    /\ NotTracking
    /\ received < MaxCalls
    /\ received' = received + 1
    /\ IF kind = "mcp_post" /\ c = "None"
       THEN exchange' = "raised" /\ UNCHANGED tracking
       ELSE IF kind = "mcp_post"
       THEN Track(c) /\ UNCHANGED exchange
       ELSE exchange' = "served" /\ UNCHANGED tracking
    /\ UNCHANGED <<active_connections, conn_order, now, dash, pending>>
    /\ ConnFrame

\* LoggingMiddleware.__call__, gateway_server.py lines 480-501 and 515:
\* client[0] of line 488 is evaluated for every HTTP request; then the
\* wrapped app is awaited.  One connection carries one request at a time.
\* A scope that is not http goes to the wrapped app at line 517, with the
\* caller's send.
LoggingReceive(kind, c) ==
    /\ deployment = "gateway_server"
    /\ NotTracking
    /\ received < MaxCalls
    /\ c \notin pending
    /\ received' = received + 1
    /\ IF kind = "non_http"
       THEN exchange' = "served" /\ UNCHANGED <<pending, tracking>>
       ELSE IF c = "None"
       THEN exchange' = "raised" /\ UNCHANGED <<pending, tracking>>
       ELSE IF kind = "mcp_post"
       THEN Track(c) /\ UNCHANGED <<pending, exchange>>
       ELSE pending' = pending \cup {c} /\ UNCHANGED <<exchange, tracking>>
    /\ UNCHANGED <<active_connections, conn_order, now, dash>>
    /\ ConnFrame

\* send_wrapper, gateway_server.py lines 504-513, on http.response.start.
LoggingSend(c) ==
    /\ NotTracking
    /\ c \in pending
    /\ pending' = pending \ {c}
    /\ active_connections' =
          IF c \in DOMAIN active_connections
          THEN [active_connections EXCEPT ![c]["last_seen"] = Isoformat(now)]
          ELSE active_connections
    /\ exchange' = "served"
    /\ UNCHANGED <<conn_order, now, dash, received, tracking>>
    /\ ConnFrame

DashFrame ==
    /\ deployment = "ui"
    /\ UNCHANGED <<now, pending, exchange, received, tracking>>
    /\ ConnFrame

\* make_header, ui.py line 108 (called at line 304).
DashHeader ==
    /\ DashFrame
    /\ dash.pc = "sleep"
    /\ dash' = [dash EXCEPT !.pc = "p234",
                            !.header = Cardinality(DOMAIN active_connections)]
    /\ UNCHANGED <<active_connections, conn_order>>

\* make_info_panel, ui.py lines 234-235.
DashPruneStart ==
    /\ DashFrame
    /\ dash.pc = "p234"
    /\ dash' = [dash EXCEPT !.pc = IF conn_order = <<>> THEN "p245" ELSE "p236",
                            !.keys = conn_order,
                            !.current_time = now]
    /\ UNCHANGED <<active_connections, conn_order>>

\* Lines 236-241: last_seen of the next address is read and compared with
\* current_time.
DashRead ==
    /\ DashFrame
    /\ dash.pc = "p236"
    /\ dash' = [dash EXCEPT !.pc = "p242",
                            !.time_diff = dash.current_time
                                - FromIsoformat(active_connections[Head(dash.keys)]["last_seen"])]
    /\ UNCHANGED <<active_connections, conn_order>>

\* Lines 242-243, then the loop.
DashDel ==
    /\ DashFrame
    /\ dash.pc = "p242"
    /\ LET a == Head(dash.keys) IN
       IF dash.time_diff > IdleThreshold
       THEN /\ active_connections' =
                  [x \in (DOMAIN active_connections) \ {a} |-> active_connections[x]]
            /\ conn_order' = Without(conn_order, a)
       ELSE UNCHANGED <<active_connections, conn_order>>
    /\ dash' = [dash EXCEPT !.pc = IF Tail(dash.keys) = <<>> THEN "p245" ELSE "p236",
                            !.keys = Tail(dash.keys),
                            !.time_diff = 0]

\* Line 245; update_display returns and run sleeps.
DashCount ==
    /\ DashFrame
    /\ dash.pc = "p245"
    /\ dash' = [dash EXCEPT !.pc = "sleep", !.keys = <<>>, !.current_time = 0,
                            !.active = Cardinality(DOMAIN active_connections)]
    /\ UNCHANGED <<active_connections, conn_order>>

InitConn ==
    /\ child_servers = Registry
    /\ order = RegistryOrder
    /\ metrics = EmptyDict
    /\ request_count = 0
    /\ error_count = 0
    /\ th = [t \in Threads |-> Idle]
    /\ awaiting = [t \in Threads |-> {}]
    /\ callState = [t \in Threads |-> "none"]
    /\ waiting = [n \in DOMAIN Registry |-> 0]
    /\ resp = NoResp
    /\ calls = [n \in DOMAIN Registry |-> NoCall]
    /\ started = 0
    /\ config = <<>>
    /\ li = 0
    /\ lpc = "returned"
    /\ mounted = <<[name |-> "p1", prefix |-> "x", headers |-> EmptyDict,
                    handle |-> [via |-> "as_proxy", name |-> "-"]],
                   [name |-> "m1", prefix |-> "y", headers |-> EmptyDict,
                    handle |-> [via |-> "call", name |-> "initialize"]]>>
    /\ file = "ok"
    /\ environ = EmptyDict
    /\ issued = NoProbes
    /\ before = NoSnapshot
    /\ health_urls = NoUrls
    /\ launcher = NoLauncher
    /\ \E d \in {"gateway_server", "ui"} : NoConnections(d)

NextConn ==
    \/ \E d \in Ticks : Tick(d)
    \/ \E k \in RequestKinds, c \in Clients : SilentCall(k, c)
    \/ \E k \in RequestKinds, c \in Clients : LoggingReceive(k, c)
    \/ \E c \in Addrs : LoggingSend(c)
    \/ TrackStore
    \/ DashHeader
    \/ DashPruneStart
    \/ DashRead
    \/ DashDel
    \/ DashCount

SpecConn == InitConn /\ [][NextConn]_vars

-----------------------------------------------------------------------------
(* load_child_servers: one step to open the file, then one step per entry  *)
(* of the child_servers list.                                              *)

\* What load_child_servers can find at config_path:
\*   "missing"    no file,
\*   "notjson"    a file json.load rejects,
\*   "notobject"  a JSON document that is not an object (config.get fails),
\*   "nokey"      an object without the key child_servers,
\*   "notlist"    an object whose child_servers is not a list of objects,
\*   "ok"         an object whose child_servers is a list of objects.
FileKinds == {"missing", "notjson", "notobject", "nokey", "notlist", "ok"}

\* Lines 285-296: "return" at line 287, "except" when a statement of the try
\* block raises before the first entry is looked at, "loop" otherwise.
OpenOutcome(f) ==
    IF f = "missing" THEN "return"
    ELSE IF f \in {"notjson", "notobject", "notlist"} THEN "except"
    ELSE "loop"

\* No handler around the try block: the exception leaves load_child_servers.
OuterExceptMissing == lpc' = "raised"

\* Lines 445-446: the handler logs the exception and the function ends.
OuterExcept == lpc' = "returned"

\* server first, then mcp, then the init function.
LocalServerReversed(e) ==
    LET init_function == Get(e, "init_function", "initialize")
        attrs == IF e["env"] = "noattr" THEN {} ELSE Get(e, "attrs", {"initialize"})
    IN  IF "server" \in attrs THEN [via |-> "attr", name |-> "server"]
        ELSE IF "mcp" \in attrs THEN [via |-> "attr", name |-> "mcp"]
        ELSE IF init_function \in attrs THEN [via |-> "call", name |-> init_function]
        ELSE [via |-> "none", name |-> "-"]

\* Lines 333 and 416-429: local_server of a module that was imported.  The
\* module's attributes are those of key "attrs"; an entry that does not
\* tell them has the default initializer.
LocalServer(e) ==
    LET init_function == Get(e, "init_function", "initialize")
        attrs == IF e["env"] = "noattr" THEN {} ELSE Get(e, "attrs", {"initialize"})
    IN  IF init_function \in attrs THEN [via |-> "call", name |-> init_function]
        ELSE IF "mcp" \in attrs THEN [via |-> "attr", name |-> "mcp"]
        ELSE IF "server" \in attrs THEN [via |-> "attr", name |-> "server"]
        ELSE [via |-> "none", name |-> "-"]

\* What gateway.mount is given: the proxy server of line 318, or the
\* module's local_server.
MountedHandle(e) ==
    IF e["type"] = "proxy" THEN [via |-> "as_proxy", name |-> "-"] ELSE LocalServer(e)

\* What the body of the for loop does with entry e:
\*   "abort"  an exception reaches the outer except of line 445,
\*   "skip"   a continue statement is reached (lines 327, 360, 405, 414, 429, 440),
\*   "mount"  gateway.mount succeeds and line 443 stores the entry,
\*   "store"  neither branch is taken and line 443 stores the entry.
EntryOutcome(e) ==
    IF ~HasKey(e, "name") \/ ~HasKey(e, "type") THEN "abort"
    ELSE IF e["type"] = "proxy"
    THEN IF ~HasKey(e, "url") THEN "abort"
         ELSE IF HasKey(e, "auth") /\ ~HasKey(e["auth"], "type") THEN "abort"
         ELSE IF HasKey(e, "auth") /\ e["auth"]["type"] = "bearer"
                 /\ ~HasKey(e["auth"], "token") THEN "abort"
         ELSE IF e["env"] = "ok" THEN "mount" ELSE "skip"
    ELSE IF e["type"] = "module"
    THEN IF e["env"] \in {"nopath", "noimport", "raises"} THEN "skip"
         ELSE IF LocalServer(e).via = "none" THEN "skip"
         ELSE "mount"
    ELSE "store"

\* The environments load_child_servers runs in: the variable the entries'
\* auth.token names is unset, or set.
Environs == {EmptyDict, [k \in {"T"} |-> "secret"]}

\* f"Bearer {token}" of line 313.
Bearer(token) == <<"Bearer ", token>>

\* Lines 308-313: the local dict headers after the auth handling.
Headers(e) ==
    IF HasKey(e, "auth") /\ e["auth"]["type"] = "bearer"
    THEN SetKey(EmptyDict, "Authorization",
                Bearer(Get(environ, e["auth"]["token"], e["auth"]["token"])))
    ELSE EmptyDict

\* Line 317: ProxyClient(url).  The url is the only argument, so the
\* client is built with no header of the caller's.
ProxyClient(url) == [url |-> url, headers |-> EmptyDict]

\* The headers of the client a mounted child is reached through: those of
\* the ProxyClient of line 317; a module (line 434) is mounted in-process.
ClientHeaders(e) ==
    IF e["type"] = "proxy" THEN ProxyClient(e["url"]).headers ELSE EmptyDict

\* Line 443: state.child_servers[name] = server_config.
StoreDescriptor(e) ==
    /\ child_servers' =
          [x \in (DOMAIN child_servers) \cup {e["name"]} |->
              IF x = e["name"] THEN e ELSE child_servers[x]]
    /\ order' = IF e["name"] \in DOMAIN child_servers THEN order
                ELSE Append(order, e["name"])

Loading == lpc = "loop" /\ li <= Len(config)

LoadFrame ==
    UNCHANGED <<config, file, environ, health_urls, launcher, serveVars, connVars>>

\* Lines 280-296.
LoadOpen ==
    /\ lpc = "start"
    /\ IF OpenOutcome(file) = "except" THEN OuterExcept
       ELSE lpc' = IF OpenOutcome(file) = "return" THEN "returned" ELSE "loop"
    /\ UNCHANGED <<li, mounted, child_servers, order>>
    /\ LoadFrame

\* Lines 297-313: a KeyError of a missing name, type, url or auth field
\* leaves the for loop and is logged by the outer handler.
LoadAbort ==
    /\ Loading
    /\ EntryOutcome(config[li]) = "abort"
    /\ OuterExcept
    /\ UNCHANGED <<li, mounted, child_servers, order>>
    /\ LoadFrame

\* A failed mount is logged and the loop continues with the next entry.
LoadSkip ==
    /\ Loading
    /\ EntryOutcome(config[li]) = "skip"
    /\ li' = li + 1
    /\ UNCHANGED <<lpc, mounted, child_servers, order>>
    /\ LoadFrame

\* Lines 317-323 and 432-434, then line 443.
LoadMount ==
    /\ Loading
    /\ EntryOutcome(config[li]) = "mount"
    /\ mounted' = Append(mounted, [name |-> config[li]["name"],
                                   prefix |-> Get(config[li], "prefix", ""),
                                   headers |-> ClientHeaders(config[li]),
                                   handle |-> MountedHandle(config[li])])
    /\ StoreDescriptor(config[li])
    /\ li' = li + 1
    /\ UNCHANGED lpc
    /\ LoadFrame

\* A type that is neither "proxy" nor "module": line 443 alone.
LoadStore ==
    /\ Loading
    /\ EntryOutcome(config[li]) = "store"
    /\ StoreDescriptor(config[li])
    /\ li' = li + 1
    /\ UNCHANGED <<lpc, mounted>>
    /\ LoadFrame

\* The list is exhausted and load_child_servers returns.
LoadEnd ==
    /\ lpc = "loop"
    /\ li > Len(config)
    /\ lpc' = "returned"
    /\ UNCHANGED <<li, mounted, child_servers, order>>
    /\ LoadFrame

InitLoad ==
    /\ file \in FileKinds
    /\ config \in (IF file = "ok" THEN Configs ELSE {<<>>})
    /\ li = 1
    /\ lpc = "start"
    /\ mounted = <<>>
    /\ child_servers = EmptyDict
    /\ order = <<>>
    /\ metrics = EmptyDict
    /\ request_count = 0
    /\ error_count = 0
    /\ th = [t \in Threads |-> IF t = "srv" THEN [Idle EXCEPT !.pc = "boot"] ELSE Idle]
    /\ awaiting = [t \in Threads |-> {}]
    /\ callState = [t \in Threads |-> "none"]
    /\ waiting = EmptyDict
    /\ resp = NoResp
    /\ calls = EmptyDict
    /\ started = 0
    /\ environ \in Environs
    /\ issued = NoProbes
    /\ before = NoSnapshot
    /\ health_urls = NoUrls
    /\ launcher = NoLauncher
    /\ NoConnections("gateway_server")

NextLoad == LoadOpen \/ LoadAbort \/ LoadSkip \/ LoadMount \/ LoadStore \/ LoadEnd

SpecLoad == InitLoad /\ [][NextLoad]_vars

-----------------------------------------------------------------------------
(* One call of update_metrics, entered from a state the gateway can be in  *)
(* when server_health_check makes it.                                      *)

\* What has happened to a child's record before the call: nothing; a probe
\* of check_proxy with each outcome; the module loop of
\* check_server_connections; an earlier update_metrics call.
ProxyHistories == {"none", "probe_200", "probe_non200", "probe_exc", "healthy", "error"}

ModuleHistories == {"none", "boot", "healthy"}

\* The record update_metrics leaves for a first observation (lines 59-81).
Observed(latency, status) ==
    LET r == SetKey(SetKey(SetKey(AddLatency(IncRequestCount(ZeroRecord), latency),
                                  "last_check", "ts"),
                           "status", status),
                    "connection_status", ConnectionStatusOf(status))
    IN  IF status = "error" THEN IncErrorCount(r) ELSE r

\* The record a history leaves: lines 107-109, 112-113, 116-117 for a
\* probe, lines 122-130 for the module loop.
RecordOf(h) ==
    IF h = "probe_200"
    THEN SetKey(SetKey(EmptyDict, "connection_status", ProbeConnectionStatus("200")),
                "last_check", "ts")
    ELSE IF h = "probe_non200"
    THEN SetKey(EmptyDict, "connection_status", ProbeConnectionStatus("non200"))
    ELSE IF h = "probe_exc"
    THEN SetKey(EmptyDict, "connection_status", ProbeConnectionStatus("exc"))
    ELSE IF h = "boot"
    THEN SetKey(ModuleRecord, "connection_status", "connected")
    ELSE Observed(1, h)

\* The metrics dict after histories hp of p1 and hm of m1.
MetricsOf(hp, hm) ==
    [n \in {x \in DOMAIN Registry : (IF x = "p1" THEN hp ELSE hm) # "none"} |->
        RecordOf(IF n = "p1" THEN hp ELSE hm)]

\* The observations server_health_check hands to update_metrics: of a
\* module (line 219), of a proxy's answer (lines 194-195), of a proxy's
\* failure (line 206).
Observations ==
    {[name |-> "m1", outcome |-> "-", latency |-> l, status |-> "healthy",
      phase |-> "else"] : l \in ModuleLatencies}
    \cup {[name |-> "p1", outcome |-> o, latency |-> l, status |-> StatusOfProbe(o),
           phase |-> IF o = "exc" THEN "except" ELSE "try"]
             : o \in Outcomes, l \in Latencies}

InitUm ==
    /\ child_servers = Registry
    /\ order = RegistryOrder
    /\ \E hp \in ProxyHistories, hm \in ModuleHistories :
          \* a probe has run only where the module loop ran before it
          /\ hp \in {"probe_200", "probe_non200", "probe_exc"} => hm # "none"
          /\ metrics = MetricsOf(hp, hm)
          /\ request_count = Cardinality({h \in {hp, hm} : h \in {"healthy", "error"}})
                             + (IF hp = "healthy" /\ hm = "healthy" THEN 1 ELSE 0)
          /\ error_count = IF hp = "error" THEN 1 ELSE 0
    /\ th = [t \in Threads |-> Idle]
    /\ awaiting = [t \in Threads |-> {}]
    /\ callState = [t \in Threads |-> IF t = "srv" THEN "returned" ELSE "none"]
    /\ waiting = [n \in DOMAIN Registry |-> 0]
    /\ resp = NoResp
    /\ calls = [n \in DOMAIN Registry |-> NoCall]
    /\ started = 0
    /\ config = <<>>
    /\ li = 0
    /\ lpc = "returned"
    /\ mounted = <<[name |-> "p1", prefix |-> "x", headers |-> EmptyDict,
                    handle |-> [via |-> "as_proxy", name |-> "-"]],
                   [name |-> "m1", prefix |-> "y", headers |-> EmptyDict,
                    handle |-> [via |-> "call", name |-> "initialize"]]>>
    /\ file = "ok"
    /\ environ = EmptyDict
    /\ issued = NoProbes
    /\ before = NoSnapshot
    /\ health_urls = NoUrls
    /\ launcher = NoLauncher
    /\ \E d \in {"gateway_server", "ui"} : NoConnections(d)

\* The call update_metrics(name, latency, status) of lines 195, 206, 219.
UmCall(obs) ==
    /\ Serving
    /\ \A n \in Names : calls[n].invoked = 0
    /\ CallUpdateMetrics(obs.name, obs.outcome, obs.latency, obs.status, obs.phase)
    /\ before' = [metrics |-> metrics, request_count |-> request_count,
                  error_count |-> error_count, name |-> obs.name,
                  latency |-> obs.latency, status |-> obs.status]
    /\ UNCHANGED <<metrics, request_count, error_count, resp, awaiting, callState,
                   waiting, started, child_servers, order, issued, loadVars, connVars>>

NextUm ==
    \/ \E obs \in Observations : UmCall(obs)
    \/ Um59 \/ Um68 \/ Um69 \/ Um70 \/ Um71 \/ Um74 \/ Um78 \/ Um83

SpecUm == InitUm /\ [][NextUm]_vars

-----------------------------------------------------------------------------
(* The health URL of a proxy child, as check_proxy and server_health_check *)
(* compute it.  A string is the sequence of its pieces; "/mcp" is a piece  *)
(* of its own wherever the text holds it, and no other piece holds it.     *)

MaxPath == 2

\* "http://h" and "http://mcp.org".
UrlHeads == {<<"http://h">>, <<"http:/", "/mcp", ".org">>}

PathPieces == {"/mcp", "/api"}

TargetUrls == {h \o t : h \in UrlHeads, t \in SeqsUpTo(PathPieces, MaxPath)}

\* A health_endpoint override: a path, or an absolute URL.
HealthEndpoints == {<<"/healthz">>, <<"http://o", "/live">>}

\* str.replace("/mcp", ""): every occurrence is removed.
ReplaceMcp(str) == SelectSeq(str, LAMBDA piece : piece # "/mcp")

\* str.startswith("http").
StartsWithHttp(str) == str # <<>> /\ Head(str) \in {"http://h", "http://o", "http:/"}

\* check_proxy, lines 97-102.
CheckProxyHealthUrl(info) ==
    LET url == ReplaceMcp(Get(info, "url", <<>>))
        health_endpoint == Get(info, "health_endpoint", <<"/health">>)
    IN  IF ~StartsWithHttp(health_endpoint) THEN url \o health_endpoint
        ELSE health_endpoint

\* server_health_check, lines 186-188.
ServerHealthUrl(server_info) ==
    LET health_url == Get(server_info, "health_endpoint", <<"/health">>)
    IN  IF ~StartsWithHttp(health_url) THEN ReplaceMcp(server_info["url"]) \o health_url
        ELSE health_url

\* The proxy descriptors the loader records: a url, and a health_endpoint
\* or none.
UrlDescriptors ==
    {[ProxyCfg("p1", "x", "ok") EXCEPT !.url = u] : u \in TargetUrls}
    \cup {SetKey([ProxyCfg("p1", "x", "ok") EXCEPT !.url = u], "health_endpoint", h)
            : u \in TargetUrls, h \in HealthEndpoints}

InitUrl ==
    /\ child_servers \in {[n \in {"p1"} |-> d] : d \in UrlDescriptors}
    /\ order = <<"p1">>
    /\ metrics = EmptyDict
    /\ request_count = 0
    /\ error_count = 0
    /\ th = [t \in Threads |-> Idle]
    /\ awaiting = [t \in Threads |-> {}]
    /\ callState = [t \in Threads |-> "none"]
    /\ waiting = [n \in {"p1"} |-> 0]
    /\ resp = NoResp
    /\ calls = [n \in {"p1"} |-> NoCall]
    /\ started = 0
    /\ config = <<>>
    /\ li = 0
    /\ lpc = "returned"
    /\ mounted = <<[name |-> "p1", prefix |-> "x", headers |-> EmptyDict,
                    handle |-> [via |-> "as_proxy", name |-> "-"]]>>
    /\ file = "ok"
    /\ environ = EmptyDict
    /\ issued = NoProbes
    /\ before = NoSnapshot
    /\ health_urls = NoUrls
    /\ launcher = NoLauncher
    /\ NoConnections("ui")

UrlFrame ==
    UNCHANGED <<child_servers, order, serveVars, config, li, lpc, mounted, file,
                environ, launcher, connVars>>

\* check_proxy reaches line 104 with its health_url.
CheckProxyUrl ==
    /\ health_urls.check_proxy = <<>>
    /\ health_urls' = [health_urls EXCEPT
                          !.check_proxy = CheckProxyHealthUrl(child_servers["p1"])]
    /\ UrlFrame

\* server_health_check reaches line 190 with its health_url.
ServerHealthCheckUrl ==
    /\ health_urls.server_health_check = <<>>
    /\ health_urls' = [health_urls EXCEPT
                          !.server_health_check = ServerHealthUrl(child_servers["p1"])]
    /\ UrlFrame

NextUrl == CheckProxyUrl \/ ServerHealthCheckUrl

SpecUrl == InitUrl /\ [][NextUrl]_vars

-----------------------------------------------------------------------------
(* launcher.py.  One main thread: run() starts the two servers, then polls *)
(* them; stop_all runs in the finally block of run and in the signal       *)
(* handler of main, which Python runs in the main thread between two       *)
(* statements of whatever it was executing.                                *)

MaxSignals == 2

\* A stop_all call about to handle self.processes[1].
StopAllFrame(from) == [i |-> 1, step |-> "terminate", from |-> from]

LaunchFrame ==
    UNCHANGED <<child_servers, order, serveVars, config, li, lpc, mounted, file,
                environ, health_urls, connVars>>

\* No stop_all call is in progress: the main thread is in run().
InRun == launcher.stack = <<>>

\* The innermost stop_all call.
Top == launcher.stack[Len(launcher.stack)]

\* The stack with its innermost frame replaced by f.
WithTop(f) == [launcher.stack EXCEPT ![Len(launcher.stack)] = f]

InitLaunch ==
    /\ child_servers = Registry
    /\ order = RegistryOrder
    /\ metrics = EmptyDict
    /\ request_count = 0
    /\ error_count = 0
    /\ th = [t \in Threads |-> Idle]
    /\ awaiting = [t \in Threads |-> {}]
    /\ callState = [t \in Threads |-> "none"]
    /\ waiting = [n \in DOMAIN Registry |-> 0]
    /\ resp = NoResp
    /\ calls = [n \in DOMAIN Registry |-> NoCall]
    /\ started = 0
    /\ config = <<>>
    /\ li = 0
    /\ lpc = "start"
    /\ mounted = <<>>
    /\ file = "ok"
    /\ environ = EmptyDict
    /\ issued = NoProbes
    /\ before = NoSnapshot
    /\ health_urls = NoUrls
    /\ launcher = LauncherAt("popen")
    /\ NoConnections("gateway_server")

\* start_server, lines 35-45: subprocess.Popen creates the child.
Popen ==
    /\ InRun
    /\ launcher.pc = "popen"
    /\ launcher' = [launcher EXCEPT !.pc = "append",
                                    !.child[Servers[launcher.idx]].st = "running"]
    /\ LaunchFrame

\* start_server, lines 48-64: the stream threads are started and the
\* process is appended to self.processes.
ProcessesAppend ==
    /\ InRun
    /\ launcher.pc = "append"
    /\ launcher' = [launcher EXCEPT !.pc = "sleep",
                                    !.processes = Append(@, Servers[launcher.idx])]
    /\ LaunchFrame

\* run, lines 89 and 92: time.sleep(2) ends.
Sleep ==
    /\ InRun
    /\ launcher.pc = "sleep"
    /\ launcher' = IF launcher.idx < Len(Servers)
                   THEN [launcher EXCEPT !.pc = "popen", !.idx = @ + 1]
                   ELSE [launcher EXCEPT !.pc = "loop"]
    /\ LaunchFrame

\* run, lines 111-117 and 121-124: a pass of the loop that finds a process
\* whose poll() is not None raises RuntimeError, which the except clause
\* prints; the finally block calls stop_all.  A pass that finds none
\* changes nothing.
Poll ==
    /\ InRun
    /\ launcher.pc = "loop"
    /\ \E i \in 1..Len(launcher.processes) :
          launcher.child[launcher.processes[i]].st = "exited"
    /\ launcher' = [launcher EXCEPT !.pc = "finally", !.fin = TRUE,
                                    !.stack = <<StopAllFrame("finally")>>]
    /\ LaunchFrame

\* main, lines 130-131: SIGINT or SIGTERM is delivered and the handler
\* calls stop_all.
Signal ==
    /\ launcher.pc \notin {"off", "exited"}
    /\ launcher.signals < MaxSignals
    /\ launcher' = [launcher EXCEPT !.signals = @ + 1,
                                    !.stack = Append(@, StopAllFrame("handler"))]
    /\ LaunchFrame

\* stop_all, lines 71 and 75-76: process.terminate().  For a process that
\* has exited it does nothing; for a running one it sends SIGTERM, or
\* raises, and the except clause of line 75 goes on with the next process.
StopAllTerminate(raises) ==
    /\ ~InRun
    /\ Top.step = "terminate"
    /\ Top.i <= Len(launcher.processes)
    /\ LET c == launcher.processes[Top.i] IN
       /\ raises => launcher.child[c].st = "running"
       /\ launcher' =
             IF raises
             THEN [launcher EXCEPT
                     !.child[c].term = "failed",
                     !.stack = WithTop([Top EXCEPT !.i = @ + 1])]
             ELSE [launcher EXCEPT
                     !.child[c].term = "sent",
                     !.stack = WithTop([Top EXCEPT !.step = "wait"])]
    /\ LaunchFrame

\* An exception other than SystemExit raised in the innermost stop_all
\* call, outside its try block, leaves that call.  A stop_all call that a
\* signal handler interrupted at lines 71-72 catches it (line 75) and goes
\* on with its next process; one interrupted elsewhere is left as well.
RECURSIVE Caught(_)
Caught(stack) ==
    IF stack = <<>> THEN <<>>
    ELSE LET f == stack[Len(stack)] IN
         IF f.i <= Len(launcher.processes)
         THEN [stack EXCEPT ![Len(stack)] = [f EXCEPT !.i = @ + 1, !.step = "terminate"]]
         ELSE Caught(SubSeq(stack, 1, Len(stack) - 1))

\* The timeout of wait is not followed by kill.
StopAllWaitGivingUp(raises) ==
    /\ ~InRun
    /\ Top.step = "wait"
    /\ ~raises
    /\ launcher' = [launcher EXCEPT
                       !.stack = WithTop([Top EXCEPT !.i = @ + 1, !.step = "terminate"])]
    /\ LaunchFrame

\* stop_all, lines 72-74: process.wait(timeout=5) returns for a process
\* that has exited; for one still running it raises TimeoutExpired and the
\* except clause calls process.kill().  An exception of kill() is raised
\* inside the except clause, where line 75 does not catch it: when no
\* interrupted stop_all call catches it either, it reaches run, whose
\* except clause (line 121) prints it before the finally block calls
\* stop_all, or, from the finally block itself, ends the launcher.
StopAllWait(raises) ==
    /\ ~InRun
    /\ Top.step = "wait"
    /\ LET c == launcher.processes[Top.i]
           outer == Caught(SubSeq(launcher.stack, 1, Len(launcher.stack) - 1))
       IN
       /\ raises => launcher.child[c].st = "running"
       /\ launcher' =
             IF launcher.child[c].st # "running"
             THEN [launcher EXCEPT
                     !.stack = WithTop([Top EXCEPT !.i = @ + 1, !.step = "terminate"])]
             ELSE IF ~raises
             THEN [launcher EXCEPT
                     !.child[c].kill = "sent",
                     !.stack = WithTop([Top EXCEPT !.i = @ + 1, !.step = "terminate"])]
             ELSE IF outer # <<>>
             THEN [launcher EXCEPT
                     !.child[c].kill = "failed",
                     !.stack = outer]
             ELSE IF ~launcher.fin
             THEN [launcher EXCEPT
                     !.child[c].kill = "failed",
                     !.pc = "finally", !.fin = TRUE,
                     !.stack = <<StopAllFrame("finally")>>]
             ELSE [launcher EXCEPT
                     !.child[c].kill = "failed",
                     !.pc = "exited", !.stack = <<>>]
    /\ LaunchFrame

\* stop_all, line 77, and what follows its return.  In the handler
\* sys.exit(0) raises SystemExit (line 132): it leaves every stop_all call
\* in progress, no except clause of run or stop_all catches it, and the
\* finally block of run, unless already entered, calls stop_all (line 124).
\* After the stop_all of the finally block run returns and the launcher
\* exits.
StopAllReturn ==
    /\ ~InRun
    /\ Top.i > Len(launcher.processes)
    /\ launcher' =
          IF Top.from = "handler" /\ ~launcher.fin
          THEN [launcher EXCEPT !.stopped = @ + 1, !.pc = "finally", !.fin = TRUE,
                                !.stack = <<StopAllFrame("finally")>>]
          ELSE [launcher EXCEPT !.stopped = @ + 1, !.pc = "exited", !.stack = <<>>]
    /\ LaunchFrame

\* A child process ends, of its own or after a signal.
ChildExit(c) ==
    /\ launcher.pc # "off"
    /\ launcher.child[c].st = "running"
    /\ launcher' = [launcher EXCEPT !.child[c].st = "exited"]
    /\ LaunchFrame

\* The steps of the launcher's main thread.
MainThread ==
    \/ Popen
    \/ ProcessesAppend
    \/ Sleep
    \/ Poll
    \/ \E raises \in BOOLEAN : StopAllTerminate(raises)
    \/ \E raises \in BOOLEAN : StopAllWait(raises)
    \/ StopAllReturn

NextLaunch ==
    \/ MainThread
    \/ Signal
    \/ \E c \in DOMAIN launcher.child : ChildExit(c)

SpecLaunch == InitLaunch /\ [][NextLaunch]_vars

\* The main thread is scheduled as long as it has a step to take; nothing
\* is assumed of signals or of the children.
SpecLaunchFair == SpecLaunch /\ WF_vars(MainThread)

-----------------------------------------------------------------------------
(* Properties *)

ReqCount(n) == IF n \in DOMAIN metrics THEN Get(metrics[n], "request_count", 0) ELSE 0

ErrCount(n) == IF n \in DOMAIN metrics THEN Get(metrics[n], "error_count", 0) ELSE 0

ConnStatus(n) ==
    IF n \in DOMAIN metrics THEN Get(metrics[n], "connection_status", "absent") ELSE "absent"

StatusField(n) == IF n \in DOMAIN metrics THEN Get(metrics[n], "status", "absent") ELSE "absent"

InUpdateMetrics ==
    th["srv"].pc \in {"um59", "um68", "um69", "um70", "um71", "um74", "um78", "um83"}

RECURSIVE SumOver(_, _)
SumOver(f, S) ==
    IF S = {} THEN 0
    ELSE LET x == CHOOSE y \in S : TRUE IN f[x] + SumOver(f, S \ {x})

\* server_health_check is handing back its result for a probe that ended
\* with `outcome`.
HealthReturns(outcome) ==
    /\ th["srv"].pc = "ret"
    /\ resp.route = "health_name"
    /\ resp.probe = outcome

\* C1: while no update_metrics call is in progress, the request_count of
\* every child equals the number of update_metrics calls that named it.
C1_RequestCountIsCallCount ==
    ~InUpdateMetrics => \A n \in Names : ReqCount(n) = calls[n].invoked

\* C2: in every reachable state every metrics record has
\* error_count <= request_count (a counter the record does not hold counts
\* as 0, as the dashboard reads it).
C2_ErrorsAtMostRequests ==
    \A n \in DOMAIN metrics : ErrCount(n) <= ReqCount(n)

\* C2 witness: an error observation has been counted in a record.
C2_Witness ==
    \E n \in DOMAIN metrics : ErrCount(n) >= 1 /\ ~InUpdateMetrics

\* C3: no update is lost: while no update_metrics call is in progress, the
\* per-child request and error counters equal the numbers of update_metrics
\* calls (and of error calls) that completed for that child, and the global
\* counters equal their totals.
C3_NoLostUpdate ==
    ~InUpdateMetrics =>
        /\ \A n \in Names : /\ ReqCount(n) = calls[n].completed
                            /\ ErrCount(n) = calls[n].errors
        /\ request_count = SumOver([n \in Names |-> calls[n].completed], Names)
        /\ error_count = SumOver([n \in Names |-> calls[n].errors], Names)

LoadReturned == lpc = "returned"

\* An entry with the required fields and a kind the gateway knows.
PassesValidation(e) ==
    /\ HasKey(e, "name")
    /\ HasKey(e, "type")
    /\ HasKey(e, "prefix")
    /\ e["type"] \in {"proxy", "module"}

Recorded(e) == e["name"] \in DOMAIN child_servers

Mounted(e) == \E k \in 1..Len(mounted) : mounted[k].name = e["name"]

\* C4: once load_child_servers has returned, every entry that passes
\* validation and that the loop has processed is recorded in
\* child_servers, whether its mount succeeded or failed.
C4_DescriptorRecordedRegardless ==
    LoadReturned =>
        \A i \in 1..Len(config) :
            (i < li /\ PassesValidation(config[i])) => Recorded(config[i])

ValidProxy(e) == e \in GoodEntries /\ e["type"] = "proxy"

\* C5: a configuration of one valid proxy entry and one entry without a
\* name, in either order, records and mounts exactly the valid entry.
C5_NamelessEntrySkipped ==
    (LoadReturned /\ Len(config) = 2) =>
        \A i, j \in 1..2 :
            (i # j /\ ValidProxy(config[i]) /\ ~HasKey(config[j], "name")) =>
                /\ DOMAIN child_servers = {config[i]["name"]}
                /\ Len(mounted) = 1
                /\ Mounted(config[i])

\* The mount of e fails: a validated entry that is not mounted.
MountFails(e) == PassesValidation(e) /\ EntryOutcome(e) \in {"abort", "skip"}

\* C6: in a configuration whose entries all carry a name and a type, an
\* entry whose mount fails never keeps the entry of another child, earlier
\* or later in the list, from being mounted and recorded.
C6_MountFailureIsolated ==
    (LoadReturned /\ \A k \in 1..Len(config) :
                        HasKey(config[k], "name") /\ HasKey(config[k], "type")) =>
        \A i, j \in 1..Len(config) :
            (/\ i # j
             /\ MountFails(config[i])
             /\ EntryOutcome(config[j]) = "mount"
             /\ config[i]["name"] # config[j]["name"]) =>
                Recorded(config[j]) /\ Mounted(config[j])

\* The prefix load_child_servers reads from a descriptor (line 299).
PrefixOf(e) == Get(e, "prefix", "")

\* C19: once load_child_servers has returned, no two mounted children share
\* a name or a prefix, and no two recorded descriptors share a prefix.
C19_NamesAndPrefixesUnique ==
    LoadReturned =>
        /\ \A i, j \in 1..Len(mounted) :
              i # j => /\ mounted[i].name # mounted[j].name
                       /\ mounted[i].prefix # mounted[j].prefix
        /\ \A m, n \in DOMAIN child_servers :
              m # n => PrefixOf(child_servers[m]) # PrefixOf(child_servers[n])

\* C20: load_child_servers never ends by raising, and when the file is
\* missing, is not JSON, or holds no usable child list, it returns with
\* nothing mounted and nothing recorded.
C20_UnusableFileGivesEmptyRegistry ==
    /\ lpc # "raised"
    /\ (LoadReturned /\ file # "ok") => (child_servers = EmptyDict /\ mounted = <<>>)

\* C20 witness: load_child_servers has returned from a file that is not JSON.
C20_Witness == LoadReturned /\ file = "notjson" /\ DOMAIN child_servers = {}

\* C12: a GET /health/{name} for a name that is not a key of child_servers
\* is answered 404 and leaves metrics and the global counters as they were;
\* no metrics record exists for a name outside child_servers.
C12_UnknownNameNotFound ==
    [][(/\ started' = started + 1
        /\ resp'.route = "health_name"
        /\ resp'.name \notin Names) =>
            /\ resp'.code = "404"
            /\ UNCHANGED <<metrics, request_count, error_count>>
            /\ DOMAIN metrics' \subseteq Names]_vars

\* C12 witness: a 404 is being answered while records and counts exist.
C12_Witness ==
    /\ th["srv"].pc = "ret"
    /\ resp.code = "404"
    /\ resp.name = UnknownName
    /\ request_count > 0
    /\ DOMAIN metrics # {}

\* C17: in every response of /status or /metrics, a record that carries an
\* average latency has request_count > 0 and the average is total_latency /
\* request_count (to two decimals) as the record stands at the response.
C17_AverageIsTotalOverCount ==
    (th["srv"].pc = "ret" /\ resp.route \in {"status", "metrics"} /\ resp.code = "200") =>
        \A n \in DOMAIN metrics :
            HasKey(metrics[n], "average_latency_ms") =>
                /\ ReqCount(n) > 0
                /\ metrics[n]["average_latency_ms"] = AverageLatency(metrics[n])

\* C18: a request of GET /, /health, /status or /metrics leaves the
\* descriptors, every metrics record, the active connections and the global
\* counters as they were.
C18_AggregateRoutesReadOnly ==
    [][(resp.route = "-" /\ resp'.route \in {"root", "health", "status", "metrics"}) =>
          UNCHANGED <<child_servers, metrics, request_count, error_count,
                      active_connections>>]_vars

\* C7: a per-child health check of a proxy whose probe timed out or failed
\* at transport level, and that ends in a structured response, leaves
\* connection_status = disconnected.
C7_TimeoutGivesDisconnected ==
    (HealthReturns("exc") /\ resp.code # "raised") =>
        ConnStatus(resp.name) = "disconnected"

\* C8: a per-child health check of a proxy whose probe returned 200 leaves
\* connection_status = connected and status = healthy.
C8_OkGivesConnectedHealthy ==
    HealthReturns("200") =>
        ConnStatus(resp.name) = "connected" /\ StatusField(resp.name) = "healthy"

\* C9: a per-child health check of a registered child never ends in an
\* unhandled exception.
C9_HealthCheckNeverRaises ==
    (th["srv"].pc = "ret" /\ resp.route = "health_name") => resp.code # "raised"

\* C10: once a call of check_server_connections has returned, every probe
\* it launched has resolved and its result is written.
C10_JoinAll ==
    \A t \in Threads :
        callState[t] = "returned" =>
            awaiting[t] = {} /\ th[t].pc \notin {"cp107", "cp108", "cp109"}

-----------------------------------------------------------------------------
(* Properties of one batch of probes *)

\* Every probe of the batch has resolved and its coroutine has finished.
BatchDone ==
    \E t \in Threads :
        /\ callState[t] # "none"
        /\ awaiting[t] = {}
        /\ th[t].pc \in {"idle", "cs145"}

UrlOf(n) == child_servers[n]["url"]

WithUrl(u) == {n \in Names : UrlOf(n) = u}

WithConnStatus(c) == {n \in Names : ConnStatus(n) = c}

\* C11: after one batch, whatever the order in which the probes completed,
\* every child that answered 200 is recorded connected, every child that
\* timed out is recorded disconnected, and children with the same probe
\* outcome have the same connection_status; 3 children answering 200 and 2
\* timing out give exactly 3 connected and 2 disconnected records.
C11_BatchStatusPerOwnOutcome ==
    BatchDone =>
        /\ \A n \in WithUrl("up") : ConnStatus(n) = "connected"
        /\ \A n \in WithUrl("silent") : ConnStatus(n) = "disconnected"
        /\ \A m, n \in Names : UrlOf(m) = UrlOf(n) => ConnStatus(m) = ConnStatus(n)
        /\ (Cardinality(WithUrl("up")) = 3 /\ Cardinality(WithUrl("silent")) = 2
                /\ Cardinality(Names) = 5) =>
              /\ Cardinality(WithConnStatus("connected")) = 3
              /\ Cardinality(WithConnStatus("disconnected")) = 2

\* C11 witness: a batch over 5 children, 3 answering 200 and 2 timing out,
\* has completed.
C11_Witness ==
    /\ BatchDone
    /\ Cardinality(Names) = 5
    /\ Cardinality(WithUrl("up")) = 3
    /\ Cardinality(WithUrl("silent")) = 2
    /\ Cardinality(DOMAIN metrics) = 5

\* C25: the connection_status a probe of check_server_connections records
\* for a child is the class of that child's own answer: connected for a 200
\* answer, unhealthy for any other status code, disconnected for a timeout
\* or transport failure.
C25_ProbeClassifiedByOwnResult ==
    \A n \in Names :
        ConnStatus(n) # "absent" =>
            ConnStatus(n) = (IF UrlOf(n) = "up" THEN "connected"
                             ELSE IF UrlOf(n) = "failing" THEN "unhealthy"
                             ELSE "disconnected")

\* C25 witness: a batch with a child of each kind has completed and every
\* child's result is recorded.
C25_Witness ==
    /\ BatchDone
    /\ \A u \in EndpointUrls : WithUrl(u) # {}
    /\ WithConnStatus("absent") = {}

\* C26: no call of check_server_connections ends with an exception, and
\* once the batch is over every proxy child has its result recorded, the
\* children probed next to one that raised or timed out included.
C26_ProbeFailureStaysLocal ==
    /\ \A t \in Threads : callState[t] # "raised"
    /\ BatchDone => \A n \in Names : ConnStatus(n) # "absent"

\* C26 witness: a batch in which one child timed out has completed and a
\* child that answered is recorded next to it.
C26_Witness ==
    /\ BatchDone
    /\ \E m, n \in Names :
          /\ UrlOf(m) = "silent" /\ ConnStatus(m) = "disconnected"
          /\ UrlOf(n) # "silent" /\ ConnStatus(n) \in {"connected", "unhealthy"}

\* C27: a call of check_server_connections issues exactly one client.get
\* for each proxy descriptor, and a child that timed out is recorded
\* disconnected with that one request.
C27_ProbedExactlyOnce ==
    \A t \in Threads :
        callState[t] # "none" =>
            /\ DOMAIN issued[t] = ProxyNames
            /\ \A n \in ProxyNames : issued[t][n] = 1
            /\ BatchDone => \A n \in WithUrl("silent") : ConnStatus(n) = "disconnected"

\* C27 witness: a batch of several children has completed, one of them
\* timed out and is recorded disconnected.
C27_Witness ==
    /\ BatchDone
    /\ Cardinality(Names) >= 2
    /\ \E t \in Threads, n \in WithUrl("silent") :
          /\ callState[t] # "none"
          /\ issued[t][n] = 1
          /\ ConnStatus(n) = "disconnected"

-----------------------------------------------------------------------------
(* Properties of connection tracking *)

\* Seconds since the connection of address a was last seen.
IdleFor(a) == now - active_connections[a]["last_seen"].text

\* The connections seen within the idle window.
Fresh == {a \in DOMAIN active_connections : IdleFor(a) <= IdleThreshold}

\* C13: every count of the active connections the dashboard shows, in the
\* header and in the info panel, is the number of connections seen within
\* the last 30 seconds: one seen 31 seconds ago is not counted, one seen 10
\* seconds ago is.
C13_SnapshotExcludesIdle ==
    [][/\ (dash.pc = "sleep" /\ dash'.pc = "p234") =>
              dash'.header = Cardinality(Fresh)
       /\ (dash.pc = "p245" /\ dash'.pc = "sleep") =>
              dash'.active = Cardinality(Fresh)]_vars

\* C14: whenever an entry leaves active_connections, the entry that leaves
\* was last seen more than 30 seconds ago.
C14_FreshNeverPruned ==
    [][\A a \in DOMAIN active_connections :
          a \notin DOMAIN active_connections' => IdleFor(a) > IdleThreshold]_vars

\* C15: as long as a connection stays in active_connections its
\* connected_at does not change.
C15_ConnectedAtFixed ==
    [][\A a \in (DOMAIN active_connections) \cap (DOMAIN active_connections') :
          active_connections'[a]["connected_at"] = active_connections[a]["connected_at"]]_vars

\* C16: no exchange ends with an exception of the middleware instead of the
\* response of the wrapped application.
C16_TrackingFailureSwallowed == exchange # "raised"

\* An entry of type proxy whose auth is of type bearer.
BearerProxy(e) ==
    /\ HasKey(e, "type") /\ e["type"] = "proxy"
    /\ HasKey(e, "auth") /\ HasKey(e["auth"], "type") /\ e["auth"]["type"] = "bearer"

\* C21: when the loader mounts a proxy entry whose auth is of type bearer,
\* the client the child is reached through carries Authorization: Bearer
\* <token>, the token being the value of the environment variable named by
\* auth.token when it is set and the literal auth.token otherwise.
C21_BearerHeaderOnClient ==
    [][(/\ Loading
        /\ BearerProxy(config[li])
        /\ Len(mounted') = Len(mounted) + 1) =>
            mounted'[Len(mounted')].headers =
                SetKey(EmptyDict, "Authorization",
                       Bearer(IF HasKey(environ, config[li]["auth"]["token"])
                              THEN environ[config[li]["auth"]["token"]]
                              ELSE config[li]["auth"]["token"]))]_vars

\* The field child_servers of the body of GET /health, line 167:
\* len(state.child_servers).
HealthChildServers == Cardinality(DOMAIN child_servers)

\* C22: once load_child_servers has returned, the child count aggregate
\* health reports equals the number of children mounted with gateway.mount.
C22_HealthCountIsMountedCount ==
    LoadReturned => HealthChildServers = Len(mounted)

\* C23: every step that creates a metrics record or changes a field of one
\* is a statement of update_metrics; check_server_connections never writes
\* metrics itself.
C23_OnlyUpdateMetricsWrites ==
    [][metrics' # metrics => InUpdateMetrics]_vars

\* The counter `field` of child n as it was when update_metrics was
\* called, 0 when the record did not exist.
CounterBefore(n, field) ==
    IF n \in DOMAIN before.metrics THEN before.metrics[n][field] ELSE 0

\* C24: a call update_metrics(name, latency, status) ends by returning, and
\* when it has returned the record of name exists, its request_count is one
\* more and its total_latency is latency more than at the call, status is
\* the status given and connection_status is connected for healthy,
\* unhealthy for unhealthy, failed for error; the global request counter is
\* one more; the record's and the global error counter are one more exactly
\* when status is error; every other record is as it was.
C24_OneCallEffects ==
    (th["srv"].pc = "ret" /\ before.name # "-") =>
        LET n == before.name
            e == IF before.status = "error" THEN 1 ELSE 0
        IN  /\ resp.code # "raised"
            /\ n \in DOMAIN metrics
            /\ metrics[n]["request_count"] = CounterBefore(n, "request_count") + 1
            /\ metrics[n]["total_latency"] =
                  CounterBefore(n, "total_latency") + before.latency
            /\ metrics[n]["status"] = before.status
            /\ metrics[n]["connection_status"] =
                  (IF before.status = "healthy" THEN "connected"
                   ELSE IF before.status = "unhealthy" THEN "unhealthy"
                   ELSE "failed")
            /\ request_count = before.request_count + 1
            /\ metrics[n]["error_count"] = CounterBefore(n, "error_count") + e
            /\ error_count = before.error_count + e
            /\ \A m \in (DOMAIN metrics \cup DOMAIN before.metrics) \ {n} :
                  /\ m \in DOMAIN metrics /\ m \in DOMAIN before.metrics
                  /\ metrics[m] = before.metrics[m]

ModuleNames == {n \in Names : child_servers[n]["type"] = "module"}

\* C28: a module child is reported connected without any network request.
\* No request is ever awaited for a module; the statement of line 130 leaves
\* connection_status = connected whatever the record held; a per-child
\* health check of a module calls update_metrics with status healthy, whose
\* line 68 adds exactly 1 to request_count and whose line 74-77 sets
\* connection_status = connected, and it answers 200 with status healthy.
C28_ModuleConnectedWithoutRequest ==
    [][/\ \A n \in ModuleNames :
             waiting'[n] = 0 /\ \A t \in Threads : n \notin awaiting'[t]
       /\ \A t \in Threads, n \in ModuleNames :
             (th[t].pc = "cs130" /\ th'[t] # th[t] /\ th[t].name = n) =>
                ConnStatus(n)' = "connected"
       /\ \A n \in ModuleNames :
             (th["srv"].name = n /\ th'["srv"] # th["srv"]) =>
                /\ th["srv"].pc \in {"um59", "um68", "um69", "um70", "um71", "um74"} =>
                      th["srv"].status = "healthy"
                /\ th["srv"].pc = "um68" => ReqCount(n)' = ReqCount(n) + 1
                /\ th["srv"].pc = "um74" => ConnStatus(n)' = "connected"
       /\ (HealthReturns("-") /\ resp.name \in ModuleNames)' =>
             (resp.code = "200" /\ resp.status = "healthy")']_vars

\* C28 witness: a per-child health check of the module child is returning,
\* with the observation recorded.
C28_Witness ==
    /\ HealthReturns("-")
    /\ resp.name \in ModuleNames
    /\ resp.status = "healthy"
    /\ ReqCount(resp.name) >= 1
    /\ ConnStatus(resp.name) = "connected"

\* C29: the requests of a connection is the number of POST /mcp requests
\* of its address since the entry was created: an entry enters
\* active_connections with requests = 1, and while it stays its requests
\* changes only by the store of a tracked request, which adds exactly 1.
C29_RequestsCountPostsSinceCreation ==
    [][\A a \in Addrs :
          /\ (a \notin DOMAIN active_connections /\ a \in DOMAIN active_connections') =>
                active_connections'[a]["requests"] = 1
          /\ (a \in DOMAIN active_connections /\ a \in DOMAIN active_connections') =>
                active_connections'[a]["requests"] =
                    active_connections[a]["requests"]
                      + (IF tracking.client = a /\ tracking' = NoTracking THEN 1 ELSE 0)]_vars

\* C30: a request that is not POST /mcp (another path or method, or a scope
\* that is not http) creates no entry of active_connections, leaves requests
\* and connected_at of every entry as they were, and is passed on to the
\* wrapped application.
C30_OtherRequestsPassThrough ==
    [][(\E k \in {"other", "non_http"}, c \in Clients :
            SilentCall(k, c) \/ LoggingReceive(k, c)) =>
          /\ DOMAIN active_connections' = DOMAIN active_connections
          /\ \A a \in DOMAIN active_connections :
                /\ active_connections'[a]["requests"] = active_connections[a]["requests"]
                /\ active_connections'[a]["connected_at"] =
                      active_connections[a]["connected_at"]
          /\ (exchange' = "served" \/ pending' # pending)]_vars

\* C31: every descriptor recorded in child_servers has type proxy or
\* module; an entry with another type, or with none, is never recorded.
C31_RecordedKindsKnown ==
    \A n \in DOMAIN child_servers :
        /\ HasKey(child_servers[n], "type")
        /\ child_servers[n]["type"] \in {"proxy", "module"}

\* str without a trailing "/mcp".
StripRpcSuffix(str) ==
    IF str # <<>> /\ str[Len(str)] = "/mcp" THEN SubSeq(str, 1, Len(str) - 1) ELSE str

\* The health URL of a descriptor: the override when it is an absolute URL,
\* otherwise the url without its trailing "/mcp", followed by the override
\* path or by "/health".
HealthUrlOf(info) ==
    IF HasKey(info, "health_endpoint") /\ StartsWithHttp(info["health_endpoint"])
    THEN info["health_endpoint"]
    ELSE StripRpcSuffix(info["url"]) \o Get(info, "health_endpoint", <<"/health">>)

\* check_proxy and server_health_check compute the same URL.
SameHealthUrl ==
    (health_urls.check_proxy # <<>> /\ health_urls.server_health_check # <<>>) =>
        health_urls.check_proxy = health_urls.server_health_check

\* C32: the URL check_proxy probes and the URL server_health_check probes
\* are both the health URL of the descriptor, hence the same.
C32_HealthUrlStripsSuffixOnly ==
    /\ health_urls.check_proxy # <<>> =>
          health_urls.check_proxy = HealthUrlOf(child_servers["p1"])
    /\ health_urls.server_health_check # <<>> =>
          health_urls.server_health_check = HealthUrlOf(child_servers["p1"])
    /\ SameHealthUrl

\* C33: once load_child_servers has returned, child_servers stays as the
\* loader left it: no entry is added, removed or changed by
\* check_server_connections, the per-child health check, /status, /metrics,
\* /health, / or the gateway's tools.
C33_DescriptorsImmutable ==
    LoadReturned => (child_servers = Registry /\ order = RegistryOrder)

\* C33 witness: check_server_connections has written a record, a per-child
\* health check has completed and an aggregate route is answering.
C33_Witness ==
    /\ LoadReturned
    /\ DOMAIN metrics = DOMAIN Registry
    /\ request_count >= 1
    /\ th["srv"].pc = "ret"
    /\ resp.route \in {"status", "tool"}

\* C34: while no update_metrics call is in progress, the global request
\* counter is the sum of request_count over the metrics records, the global
\* error counter is the sum of error_count over them, and so the global
\* error counter is at most the global request counter.
C34_GlobalCountersAreSums ==
    ~InUpdateMetrics =>
        /\ request_count = SumOver([n \in DOMAIN metrics |-> ReqCount(n)], DOMAIN metrics)
        /\ error_count = SumOver([n \in DOMAIN metrics |-> ErrCount(n)], DOMAIN metrics)
        /\ error_count <= request_count

\* The fields of a complete metrics record.
RecordFields ==
    {"request_count", "error_count", "total_latency", "status", "connection_status"}

\* No thread is between the statement that creates a record and the last
\* statement that fills it (lines 59-81, 107-109, 123-130).
NoRecordInTheMaking ==
    /\ ~InUpdateMetrics
    /\ \A t \in Threads : th[t].pc \notin {"cs130", "cp108", "cp109"}

\* C35: whenever no record is in the making, every metrics record holds
\* request_count, error_count, total_latency, status and connection_status,
\* and GET /status never ends with an exception.
C35_RecordsCompleteStatusSucceeds ==
    /\ NoRecordInTheMaking =>
          \A n \in DOMAIN metrics : RecordFields \subseteq DOMAIN metrics[n]
    /\ resp.route = "status" => resp.code # "raised"

\* C36: whenever no record is in the making, the status and the
\* connection_status of a record that holds both agree: healthy with
\* connected, unhealthy with unhealthy, error with failed.
C36_StatusAgreesWithConnectionStatus ==
    NoRecordInTheMaking =>
        \A n \in DOMAIN metrics :
            (HasKey(metrics[n], "status") /\ HasKey(metrics[n], "connection_status")) =>
                /\ metrics[n]["status"] = "healthy" =>
                      metrics[n]["connection_status"] = "connected"
                /\ metrics[n]["status"] = "unhealthy" =>
                      metrics[n]["connection_status"] = "unhealthy"
                /\ metrics[n]["status"] = "error" =>
                      metrics[n]["connection_status"] = "failed"

\* A module entry that is imported and whose initializer and mount do not
\* raise.
ImportedModule(e) ==
    /\ HasKey(e, "name") /\ HasKey(e, "type") /\ e["type"] = "module"
    /\ e["env"] \in {"ok", "noattr"}

\* The attributes of the module an entry imports.
AttrsOf(e) == IF e["env"] = "noattr" THEN {} ELSE Get(e, "attrs", {"initialize"})

\* C37: the step of the loader that handles an imported module entry mounts
\* the result of calling the configured init function (default initialize)
\* if the module has it, otherwise the module's attribute mcp, otherwise its
\* attribute server; with none of the three it mounts nothing and records
\* nothing.
C37_HandleChosenInFixedOrder ==
    [][(Loading /\ li' = li + 1 /\ ImportedModule(config[li])) =>
          LET e == config[li]
              f == Get(e, "init_function", "initialize")
              k == Len(mounted) + 1
          IN  IF f \in AttrsOf(e)
              THEN Len(mounted') = k /\ mounted'[k].handle = [via |-> "call", name |-> f]
              ELSE IF "mcp" \in AttrsOf(e)
              THEN Len(mounted') = k /\ mounted'[k].handle = [via |-> "attr", name |-> "mcp"]
              ELSE IF "server" \in AttrsOf(e)
              THEN Len(mounted') = k /\ mounted'[k].handle = [via |-> "attr", name |-> "server"]
              ELSE mounted' = mounted /\ child_servers' = child_servers]_vars

\* C37 witness: a module reached through its attribute server (it has
\* neither the init function nor mcp) is mounted, and an entry whose module
\* has none of the three has been passed over with nothing recorded.
C37_Witness ==
    /\ LoadReturned
    /\ Len(config) = 2
    /\ ImportedModule(config[1]) /\ AttrsOf(config[1]) = {}
    /\ ImportedModule(config[2]) /\ HasKey(config[2], "init_function")
    /\ Len(mounted) = 1
    /\ mounted[1].handle = [via |-> "attr", name |-> "server"]
    /\ DOMAIN child_servers = {config[2]["name"]}

\* Both servers have been started: both processes are in self.processes.
BothStarted == Len(launcher.processes) = Len(Servers)

\* The launcher is in the loop of run and a launched process has ended.
ChildTerminated ==
    /\ launcher.pc = "loop"
    /\ BothStarted
    /\ \E c \in DOMAIN launcher.child : launcher.child[c].st = "exited"

\* stop_all has been called.
StopAllCalled == launcher.fin \/ launcher.stopped > 0

\* Every launched process has ended, or terminate() was called for it and,
\* when it went on running for the 5 seconds, kill() was (a call that
\* raised counts as the failure to stop that process).
AllStopped ==
    \A c \in DOMAIN launcher.child :
        \/ launcher.child[c].st # "running"
        \/ launcher.child[c].term = "failed"
        \/ launcher.child[c].term = "sent" /\ launcher.child[c].kill # "no"

\* C38: once both servers are started and the launcher supervises them, the
\* end of a launched process leads to stop_all being called and to every
\* other launched process having been sent terminate and, when it did not
\* exit within the 5 seconds, kill; a call that fails for one process does
\* not keep the others from being stopped.
C38_ChildEndLeadsToStopAll ==
    ChildTerminated ~> (StopAllCalled /\ AllStopped)

\* C38 witness: with no signal delivered, the launcher has left run after
\* the end of one server, and the other one, which ignored terminate, was
\* killed.
C38_Witness ==
    /\ launcher.pc = "exited"
    /\ launcher.signals = 0
    /\ launcher.child["Docupedia"].term = "sent"
    /\ launcher.child["Docupedia"].kill = "sent"
    /\ launcher.child["ADO"].st = "exited"
    /\ launcher.child["ADO"].kill = "no"

\* C39: when the launcher has exited, every child process that was created
\* has been stopped: it has ended, or terminate() was called for it.
C39_NoChildLeaked ==
    launcher.pc = "exited" =>
        \A c \in DOMAIN launcher.child :
            launcher.child[c].st = "running" => launcher.child[c].term # "no"

=============================================================================
